---- MODULE Spec2Model ----
(***************************************************************************)
(* Handwriting generation: the LSTM cell with Gaussian attention           *)
(* (model/custom_layers/lstm_with_gaussian_attention.py) and the training  *)
(* driver (trainer/trainer.py).                                            *)
(*                                                                         *)
(* Numbers are integers.  torch.exp is the integer-quantised exponential   *)
(* Exp(x) = floor(2^x): positive and exact for x >= 0, rounding to 0       *)
(* (underflow) for x < 0.  sigmoid and tanh of the LSTM cell are their     *)
(* hard-quantised forms.  Tensors of shape (bs, n) are sequences of        *)
(* sequences, indexed from 1; character classes and positions count from 0 *)
(* as in the code.  Values are finite (no inf, no NaN).                    *)
(***************************************************************************)
EXTENDS Integers, Sequences, FiniteSets, TLC

VARIABLES
    \* ---- LSTMWithGaussianAttention ----
    theta,            \* learned parameters: lstm_cell and window_layer
    cpc,              \* position of forward: "idle", "loop", "returned", "raised"
    strokes,          \* argument (bs, T, input_dim)
    sentences,        \* argument (bs, char_len)
    sentences_mask,   \* argument (bs, char_len)
    t,                \* loop index of forward
    input_t,          \* local: input of the lstm cell at the last step
    hidden_t,         \* local: (h, c)
    window_params_t,  \* local: (alpha, beta, kappa)
    window_t,         \* local: (bs, num_chars)
    hidden_seq,       \* local list
    window_seq,       \* local list
    ret,              \* the returned pair (hidden_seq_tensor, window_seq_tensor)
    ref,              \* an earlier call's arguments and result, kept for comparison
    between,          \* whether a call with other arguments returned since ref was kept
    \* ---- Trainer ----
    model_name,       \* what str(self.model) starts with
    n_batches,        \* number of batches of the training data loader
    iteration_based,  \* whether len_epoch was given (the loader is wrapped in inf_loop)
    len_epoch,        \* self.len_epoch
    n_valid,          \* number of batches of valid_data_loader, -1 when it is None
    has_lr,           \* whether lr_scheduler is not None
    metric_names,     \* the names of self.metric_ftns
    tpc,              \* position in _train_epoch / _valid_epoch
    batch_idx,        \* loop variable of the running loop
    loss_set,         \* whether the local loss of the running function is bound
    events,           \* what has been done for the current training batch, in order
    clip_i,           \* number of clip calls done for the current batch
    train_metrics,    \* MetricTracker: updates received per name
    valid_metrics,    \* MetricTracker: updates received per name
    processed,        \* training batches taken from the loader
    valid_processed,  \* validation batches taken from the loader
    n_backward,       \* calls of loss.backward()
    n_clip,           \* calls of clip_grad_norm_
    opt_steps,        \* calls of optimizer.step()
    set_steps,        \* calls of writer.set_step
    lr_steps,         \* calls of lr_scheduler.step()
    error             \* the exception the epoch ended with, "" when none

cellVars == <<theta, cpc, strokes, sentences, sentences_mask, t, input_t, hidden_t,
              window_params_t, window_t, hidden_seq, window_seq, ret, ref, between>>

trainerVars == <<model_name, n_batches, iteration_based, len_epoch, n_valid, has_lr,
                 metric_names, tpc, batch_idx, loss_set, events, clip_i, train_metrics,
                 valid_metrics, processed, valid_processed, n_backward, n_clip,
                 opt_steps, set_steps, lr_steps, error>>

vars == <<cellVars, trainerVars>>

-----------------------------------------------------------------------------
(* Dimensions of the layer (constructor arguments) and bounds of the model. *)

input_dim == 1
hidden_dim == 1
num_gaussian_window == 2
num_chars == 2
batch_size == 2

MaxT == 2          \* longest stroke sequence
MaxCharLen == 2    \* longest character sequence
MaxBatches == 2    \* most batches of a data loader, and largest len_epoch

-----------------------------------------------------------------------------
(* Tensor helpers. *)

RECURSIVE SumTo(_, _)
SumTo(f, n) == IF n = 0 THEN 0 ELSE f[n] + SumTo(f, n - 1)

Sum(f) == SumTo(f, Len(f))

Dot(w, x) == Sum([i \in 1..Len(w) |-> w[i] * x[i]])

Zeros(bs, n) == [b \in 1..bs |-> [i \in 1..n |-> 0]]

\* torch.exp, quantised: floor(2^x)
Exp(x) == IF x < 0 THEN 0 ELSE 2^x

\* torch.sigmoid, hard-quantised to {0, 1}
Sigmoid(x) == IF x > 0 THEN 1 ELSE 0

\* torch.tanh, hard-quantised to {-1, 0, 1}
Tanh(x) == IF x > 0 THEN 1 ELSE IF x < 0 THEN -1 ELSE 0

\* F.one_hot(c, num_classes): the vector of length num_classes with 1 at class c
one_hot(c, num_classes) == [i \in 1..num_classes |-> IF i - 1 = c THEN 1 ELSE 0]

-----------------------------------------------------------------------------
(* nn.LSTMCell(input_size = input_dim + num_chars, hidden_size = hidden_dim) *)

Gates == {"i", "f", "g", "o"}

lstm_cell(P, input, hidden) ==
    LET bs == Len(input)
        pre(g, b, u) == Dot(P.weight_ih[g][u], input[b]) + P.bias_ih[g][u]
                        + Dot(P.weight_hh[g][u], hidden.h[b]) + P.bias_hh[g][u]
        c1 == [b \in 1..bs |-> [u \in 1..hidden_dim |->
                  Sigmoid(pre("f", b, u)) * hidden.c[b][u]
                  + Sigmoid(pre("i", b, u)) * Tanh(pre("g", b, u))]]
        h1 == [b \in 1..bs |-> [u \in 1..hidden_dim |->
                  Sigmoid(pre("o", b, u)) * Tanh(c1[b][u])]]
    IN  [h |-> h1, c |-> c1]

\* nn.Linear(hidden_dim, 3 * num_gaussian_window)
window_layer(P, h) ==
    [b \in 1..Len(h) |-> [o \in 1..(3 * num_gaussian_window) |->
        Dot(P.weight[o], h[b]) + P.bias[o]]]

-----------------------------------------------------------------------------
(* LSTMWithGaussianAttention *)

\* an initialisation that keeps what the previous call left behind
init_hidden_and_window_Carry(bs) ==
    IF cpc = "idle"
    THEN [hidden |-> [h |-> Zeros(bs, hidden_dim), c |-> Zeros(bs, hidden_dim)],
          window_params |-> <<Zeros(bs, num_gaussian_window),
                              Zeros(bs, num_gaussian_window),
                              Zeros(bs, num_gaussian_window)>>,
          window |-> Zeros(bs, num_chars)]
    ELSE [hidden |-> hidden_t, window_params |-> window_params_t, window |-> window_t]

init_hidden_and_window(bs) ==
    [hidden |-> [h |-> Zeros(bs, hidden_dim), c |-> Zeros(bs, hidden_dim)],
     window_params |-> <<Zeros(bs, num_gaussian_window),
                         Zeros(bs, num_gaussian_window),
                         Zeros(bs, num_gaussian_window)>>,
     window |-> Zeros(bs, num_chars)]

\* Tensor.split(num_gaussian_window, dim=1): chunk n of each row
Chunk(x, n) ==
    [b \in 1..Len(x) |-> [k \in 1..num_gaussian_window |->
        x[b][(n - 1) * num_gaussian_window + k]]]

\* a kappa that forgets the previous kappa
KappaUpdate_NoCarry(previous_kappa, kappa_hat) ==
    [b \in 1..Len(kappa_hat) |-> [k \in 1..num_gaussian_window |->
        Exp(kappa_hat[b][k])]]

KappaUpdate(previous_kappa, kappa_hat) ==
    [b \in 1..Len(kappa_hat) |-> [k \in 1..num_gaussian_window |->
        previous_kappa[b][k] + Exp(kappa_hat[b][k])]]

compute_window_parameters(P, hidden, window_params) ==
    LET window_params_hat == window_layer(P, hidden.h)
        alpha_hat == Chunk(window_params_hat, 1)
        beta_hat == Chunk(window_params_hat, 2)
        kappa_hat == Chunk(window_params_hat, 3)
        previous_kappa == window_params[3]
        alpha == [b \in 1..Len(alpha_hat) |-> [k \in 1..num_gaussian_window |->
                     Exp(alpha_hat[b][k])]]
        beta == [b \in 1..Len(beta_hat) |-> [k \in 1..num_gaussian_window |->
                     Exp(beta_hat[b][k])]]
        kappa == KappaUpdate(previous_kappa, kappa_hat)
    IN  <<alpha, beta, kappa>>

\* a window that forgets the mask
MaskedWeight_NoMask(phi, mask, b, j) == phi[b][j + 1]

\* window * sentences_mask: the masked weight of position j (from 0) of item b
MaskedWeight(phi, mask, b, j) == phi[b][j + 1] * mask[b][j + 1]

compute_window(sents, mask, window_params) ==
    LET alpha == window_params[1]
        beta == window_params[2]
        kappa == window_params[3]
        bs == Len(sents)
        char_seq_len == IF bs = 0 THEN 0 ELSE Len(sents[1])
        \* u_matrix = arange(0, char_seq_len): position j is u = j
        phi == [b \in 1..bs |-> [j1 \in 1..char_seq_len |->
                   Sum([k \in 1..Len(alpha[b]) |->
                       alpha[b][k] * Exp(-(beta[b][k] * (kappa[b][k] - (j1 - 1))
                                                      * (kappa[b][k] - (j1 - 1))))])]]
        char_seq_encoding == [b \in 1..bs |-> [j1 \in 1..char_seq_len |->
                                 one_hot(sents[b][j1], num_chars)]]
    IN  [b \in 1..bs |-> [i \in 1..num_chars |->
            Sum([j1 \in 1..char_seq_len |->
                MaskedWeight(phi, mask, b, j1 - 1) * char_seq_encoding[b][j1][i]])]]

\* torch.stack(seq, dim=1): (bs, len(seq), n); entry [b][t] is seq[t][b]
Stack(seq) == [b \in 1..Len(seq[1]) |-> [s \in 1..Len(seq) |-> seq[s][b]]]

\* strokes[:, t, :] for the loop index t (from 0)
StrokeAt(x, s) == [b \in 1..Len(x) |-> x[b][s + 1]]

\* torch.cat([x_t, window_t], dim=-1)
Cat(x, w) == [b \in 1..Len(x) |-> x[b] \o w[b]]

\* strokes.size(): the time length of the batch
SeqLen(x) == Len(x[1])

NoRet == [hidden |-> <<>>, window |-> <<>>]
NoRef == [set |-> FALSE]

\* forward, lines 26-34: the arguments are bound and the state initialised
ForwardEnter(inp) ==
    LET init == init_hidden_and_window(Len(inp.strokes))
    IN  /\ strokes' = inp.strokes
        /\ sentences' = inp.sentences
        /\ sentences_mask' = inp.sentences_mask
        /\ hidden_seq' = <<>>
        /\ window_seq' = <<>>
        /\ hidden_t' = init.hidden
        /\ window_params_t' = init.window_params
        /\ window_t' = init.window
        /\ input_t' = <<>>
        /\ t' = 0
        /\ ret' = NoRet
        /\ cpc' = "loop"
        /\ UNCHANGED <<theta, trainerVars>>

\* the first call on a freshly constructed layer
ForwardCall(Inputs) ==
    /\ cpc = "idle"
    /\ \E inp \in Inputs : ForwardEnter(inp)
    /\ UNCHANGED <<ref, between>>

\* a step that computes the window from the previous step's parameters
ForwardStep_StaleParams ==
    /\ cpc = "loop"
    /\ t < SeqLen(strokes)
    /\ input_t' = Cat(StrokeAt(strokes, t), window_t)
    /\ hidden_t' = lstm_cell(theta.lstm, input_t', hidden_t)
    /\ window_params_t' = compute_window_parameters(theta.window, hidden_t', window_params_t)
    /\ window_t' = compute_window(sentences, sentences_mask, window_params_t)
    /\ hidden_seq' = Append(hidden_seq, hidden_t'.h)
    /\ window_seq' = Append(window_seq, window_t')
    /\ t' = t + 1
    /\ UNCHANGED <<theta, cpc, strokes, sentences, sentences_mask, ret, ref, between>>
    /\ UNCHANGED trainerVars

\* one iteration of the loop of forward, lines 36-50
ForwardStep ==
    /\ cpc = "loop"
    /\ t < SeqLen(strokes)
    /\ input_t' = Cat(StrokeAt(strokes, t), window_t)
    /\ hidden_t' = lstm_cell(theta.lstm, input_t', hidden_t)
    /\ window_params_t' = compute_window_parameters(theta.window, hidden_t', window_params_t)
    /\ window_t' = compute_window(sentences, sentences_mask, window_params_t')
    /\ hidden_seq' = Append(hidden_seq, hidden_t'.h)
    /\ window_seq' = Append(window_seq, window_t')
    /\ t' = t + 1
    /\ UNCHANGED <<theta, cpc, strokes, sentences, sentences_mask, ret, ref, between>>
    /\ UNCHANGED trainerVars

\* lines 52-55: the lists are stacked and returned; torch.stack raises on an
\* empty list, which is what a stroke sequence of length 0 leaves
ForwardReturn ==
    /\ cpc = "loop"
    /\ t = SeqLen(strokes)
    /\ IF Len(hidden_seq) = 0
       THEN /\ cpc' = "raised"
            /\ ret' = NoRet
       ELSE /\ cpc' = "returned"
            /\ ret' = [hidden |-> Stack(hidden_seq), window |-> Stack(window_seq)]
    /\ UNCHANGED <<theta, strokes, sentences, sentences_mask, t, input_t, hidden_t,
                   window_params_t, window_t, hidden_seq, window_seq, ref, between>>
    /\ UNCHANGED trainerVars

\* The arguments and result of the call that has just returned
ThisCall == [set |-> TRUE, strokes |-> strokes, sentences |-> sentences,
             sentences_mask |-> sentences_mask, ret |-> ret]

SameArgs(r, inp) ==
    /\ r.set
    /\ r.strokes = inp.strokes
    /\ r.sentences = inp.sentences
    /\ r.sentences_mask = inp.sentences_mask

\* a further call on the same layer object; the observer may keep the call that
\* has just returned as the one later calls are compared with
ForwardAgain(Inputs) ==
    /\ cpc \in {"returned", "raised"}
    /\ \/ /\ cpc = "returned"
          /\ ref' = ThisCall
          /\ between' = FALSE
       \/ /\ ref' = ref
          /\ between' = IF ref.set /\ cpc = "returned" /\ ~SameArgs(ref, ThisCall)
                        THEN TRUE ELSE between
    /\ \E inp \in Inputs : ForwardEnter(inp)

-----------------------------------------------------------------------------
(* Learned parameters and call arguments the model draws from. *)

ConstVec(n, v) == [i \in 1..n |-> v]

\* an LSTM cell whose input gate opens on a positive stroke, whose forget gate
\* has bias bf, whose candidate reads the stroke with weight wx and the window
\* with weight ww, and whose output gate is open
LstmParams(wx, ww, bf) ==
    LET row(a, b) == ConstVec(input_dim, a) \o ConstVec(num_chars, b)
        per(v) == [u \in 1..hidden_dim |-> v]
    IN  [weight_ih |-> [g \in Gates |-> per(CASE g = "i" -> row(1, 0)
                                              [] g = "f" -> row(0, 0)
                                              [] g = "g" -> row(wx, ww)
                                              [] g = "o" -> row(0, 0))],
         weight_hh |-> [g \in Gates |-> per(ConstVec(hidden_dim, 0))],
         bias_ih |-> [g \in Gates |-> per(CASE g = "i" -> 0
                                            [] g = "f" -> bf
                                            [] g = "g" -> 0
                                            [] g = "o" -> 1)],
         bias_hh |-> [g \in Gates |-> per(0)]]

\* a window layer whose kappa rows read the hidden vector with weight wk and
\* have bias bk (component k: bk - (k-1) % 2); alpha and beta rows are biases
WindowParams(wk, bk) ==
    LET K == num_gaussian_window
        comp(o) == (o - 1) % K
    IN  [weight |-> [o \in 1..(3 * K) |->
                        ConstVec(hidden_dim, IF o > 2 * K THEN wk ELSE 0)],
         bias |-> [o \in 1..(3 * K) |->
                        IF o <= K THEN comp(o) % 2
                        ELSE IF o <= 2 * K THEN -(comp(o) % 2)
                        ELSE bk - (comp(o) % 2)]]

Theta ==
    {[lstm |-> LstmParams(p[1], p[2], p[3]), window |-> WindowParams(p[4], p[5])] :
        p \in {<<1, 1, 1, 1, 0>>, <<-1, 0, 1, 1, 1>>, <<1, 1, 0, 0, 0>>, <<1, 0, 1, -1, -1>>}}

StrokeVals == {0, 1}

\* a mask whose last m positions are zero
PrefixMask(L, m) == [j \in 1..L |-> IF j <= L - m THEN 1 ELSE 0]

StrokeBatches(bs) ==
    UNION {[1..bs -> [1..T -> [1..input_dim -> StrokeVals]]] : T \in 0..MaxT}

\* the calls of the single-call specification: batches of batch_size items;
\* the first item has any sentence, the others repeat it or shift its classes
\* by their index; the last position is masked in every other item
CellInputs ==
    {[strokes |-> x,
      sentences |-> [b \in 1..batch_size |->
                        [j \in 1..MaxCharLen |-> (s[j] + d * (b - 1)) % num_chars]],
      sentences_mask |-> [b \in 1..batch_size |-> PrefixMask(MaxCharLen, (b + e) % 2)]] :
        x \in StrokeBatches(batch_size),
        s \in [1..MaxCharLen -> 0..(num_chars - 1)],
        d \in 0..1,
        e \in 0..1}

\* no trainer is running
TrainerIdle ==
    /\ model_name = "Conditional"
    /\ n_batches = 0
    /\ iteration_based = FALSE
    /\ len_epoch = 0
    /\ n_valid = -1
    /\ has_lr = FALSE
    /\ metric_names = {}
    /\ tpc = "idle"
    /\ batch_idx = 0
    /\ loss_set = FALSE
    /\ events = <<>>
    /\ clip_i = 0
    /\ train_metrics = [n \in {"loss"} |-> 0]
    /\ valid_metrics = [n \in {"loss"} |-> 0]
    /\ processed = 0
    /\ valid_processed = 0
    /\ n_backward = 0
    /\ n_clip = 0
    /\ opt_steps = 0
    /\ set_steps = 0
    /\ lr_steps = 0
    /\ error = ""

CellInit ==
    /\ TrainerIdle
    /\ theta \in Theta
    /\ cpc = "idle"
    /\ strokes = <<>>
    /\ sentences = <<>>
    /\ sentences_mask = <<>>
    /\ t = 0
    /\ input_t = <<>>
    /\ hidden_t = [h |-> <<>>, c |-> <<>>]
    /\ window_params_t = <<>>
    /\ window_t = <<>>
    /\ hidden_seq = <<>>
    /\ window_seq = <<>>
    /\ ret = NoRet
    /\ ref = NoRef
    /\ between = FALSE

CellNext ==
    \/ ForwardCall(CellInputs)
    \/ ForwardStep
    \/ ForwardReturn

SpecCell == CellInit /\ [][CellNext]_vars

\* the calls of the repeated-call specification: one-item batches over one
\* sentence, with no or one masked position
CallInputs ==
    {[strokes |-> x,
      sentences |-> <<[j \in 1..MaxCharLen |-> (j - 1) % num_chars]>>,
      sentences_mask |-> <<m>>] :
        x \in StrokeBatches(1),
        m \in {PrefixMask(MaxCharLen, k) : k \in 0..1}}

CallsNext ==
    \/ ForwardCall(CallInputs)
    \/ ForwardAgain(CallInputs)
    \/ ForwardStep
    \/ ForwardReturn

SpecCalls == CellInit /\ [][CallsNext]_vars

\* compute_window as a function of its arguments alone: one-item batches of
\* every length up to MaxCharLen, every mask, parameters over small ranges
WindowArgs ==
    UNION {
        {[sentences |-> <<s>>, sentences_mask |-> <<m>>, window_params |-> <<<<a>>, <<be>>, <<ka>>>>] :
            s \in [1..L -> 0..(num_chars - 1)],
            m \in [1..L -> {0, 1}],
            a \in [1..num_gaussian_window -> 1..2],
            be \in [1..num_gaussian_window -> 0..1],
            ka \in [1..num_gaussian_window -> 0..(MaxCharLen - 1)]} :
        L \in 1..MaxCharLen}

WindowInit ==
    /\ TrainerIdle
    /\ theta \in Theta
    /\ cpc = "idle"
    /\ \E a \in WindowArgs :
          /\ sentences = a.sentences
          /\ sentences_mask = a.sentences_mask
          /\ window_params_t = a.window_params
    /\ strokes = <<>>
    /\ t = 0
    /\ input_t = <<>>
    /\ hidden_t = [h |-> <<>>, c |-> <<>>]
    /\ window_t = <<>>
    /\ hidden_seq = <<>>
    /\ window_seq = <<>>
    /\ ret = NoRet
    /\ ref = NoRef
    /\ between = FALSE

\* a call of compute_window on the drawn arguments (line 47)
ComputeWindowCall ==
    /\ cpc = "idle"
    /\ window_t' = compute_window(sentences, sentences_mask, window_params_t)
    /\ cpc' = "returned"
    /\ UNCHANGED <<theta, strokes, sentences, sentences_mask, t, input_t, hidden_t,
                   window_params_t, hidden_seq, window_seq, ret, ref, between>>
    /\ UNCHANGED trainerVars

WindowNext == ComputeWindowCall

SpecWindow == WindowInit /\ [][WindowNext]_vars

-----------------------------------------------------------------------------
(* Trainer *)

Recognised == {"Unconditional", "Conditional", "Seq2Seq"}

\* the clip_grad_norm_ calls of each branch of _train_epoch, in order
ClipGroups(name) ==
    CASE name = "Unconditional" -> <<"rnn_1", "rnn_2", "rnn_3">>
      [] name = "Conditional" ->
             <<"rnn_1_with_gaussian_attention.lstm_cell", "rnn_2", "rnn_3">>
      [] name = "Seq2Seq" -> <<"model">>
      [] OTHER -> <<>>

\* the max_norm argument of every clip_grad_norm_ call
MaxNorm == 10

ClipEvent(g) == [op |-> "clip", group |-> g, max_norm |-> MaxNorm]
Event(o) == [op |-> o]

\* MetricTracker('loss', *[m.__name__ for m in self.metric_ftns])
MetricTracker(names) == [n \in {"loss"} \cup names |-> 0]

\* MetricTracker.update(key, value)
Update(tracker, key) == [tracker EXCEPT ![key] = @ + 1]

\* the configuration of a Trainer: __init__, lines 12-30
TrainerConfig ==
    /\ model_name \in Recognised \cup {"Other"}
    /\ iteration_based \in BOOLEAN
    /\ IF iteration_based
       THEN n_batches = 1 /\ len_epoch \in 1..MaxBatches
       ELSE n_batches \in 0..MaxBatches /\ len_epoch = n_batches
    /\ n_valid \in -1..MaxBatches
    /\ has_lr \in BOOLEAN
    /\ metric_names \in {{}, {"metric"}}
    /\ tpc = "start"
    /\ batch_idx = 0
    /\ loss_set = FALSE
    /\ events = <<>>
    /\ clip_i = 0
    /\ train_metrics = MetricTracker(metric_names)
    /\ valid_metrics = MetricTracker(metric_names)
    /\ processed = 0
    /\ valid_processed = 0
    /\ n_backward = 0
    /\ n_clip = 0
    /\ opt_steps = 0
    /\ set_steps = 0
    /\ lr_steps = 0
    /\ error = ""

\* no layer call is running
CellIdle ==
    /\ theta \in {CHOOSE th \in Theta : TRUE}
    /\ cpc = "idle"
    /\ strokes = <<>>
    /\ sentences = <<>>
    /\ sentences_mask = <<>>
    /\ t = 0
    /\ input_t = <<>>
    /\ hidden_t = [h |-> <<>>, c |-> <<>>]
    /\ window_params_t = <<>>
    /\ window_t = <<>>
    /\ hidden_seq = <<>>
    /\ window_seq = <<>>
    /\ ret = NoRet
    /\ ref = NoRef
    /\ between = FALSE

config == <<model_name, n_batches, iteration_based, len_epoch, n_valid, has_lr, metric_names>>

\* _train_epoch, lines 39-40
TrainEpochEnter ==
    /\ tpc = "start"
    /\ train_metrics' = [n \in DOMAIN train_metrics |-> 0]
    /\ tpc' = "train_fetch"
    /\ UNCHANGED <<cellVars, config, batch_idx, loss_set, events, clip_i, valid_metrics,
                   processed, valid_processed, n_backward, n_clip, opt_steps, set_steps,
                   lr_steps, error>>

\* line 41: the next batch of enumerate(self.data_loader); a loader wrapped in
\* inf_loop never ends
TrainFetch ==
    /\ tpc = "train_fetch"
    /\ IF iteration_based \/ processed < n_batches
       THEN /\ batch_idx' = processed
            /\ processed' = processed + 1
            /\ events' = <<>>
            /\ clip_i' = 0
            /\ tpc' = "zero_grad"
       ELSE /\ tpc' = "result"
            /\ UNCHANGED <<batch_idx, processed, events, clip_i>>
    /\ UNCHANGED <<cellVars, config, loss_set, train_metrics, valid_metrics,
                   valid_processed, n_backward, n_clip, opt_steps, set_steps, lr_steps,
                   error>>

\* line 48
ZeroGrad ==
    /\ tpc = "zero_grad"
    /\ events' = Append(events, Event("zero_grad"))
    /\ tpc' = "dispatch"
    /\ UNCHANGED <<cellVars, config, batch_idx, loss_set, clip_i, train_metrics,
                   valid_metrics, processed, valid_processed, n_backward, n_clip,
                   opt_steps, set_steps, lr_steps, error>>

\* lines 50-52, 60-62, 70-71: the forward pass of a recognised model
Forward ==
    /\ tpc = "dispatch"
    /\ model_name \in Recognised
    /\ events' = Append(events, Event("forward"))
    /\ tpc' = "loss"
    /\ UNCHANGED <<cellVars, config, batch_idx, loss_set, clip_i, train_metrics,
                   valid_metrics, processed, valid_processed, n_backward, n_clip,
                   opt_steps, set_steps, lr_steps, error>>

\* lines 77-78: the else branch builds a NotImplementedError and drops it
TrainElse ==
    /\ tpc = "dispatch"
    /\ model_name \notin Recognised
    /\ tpc' = "step"
    /\ UNCHANGED <<cellVars, config, batch_idx, loss_set, events, clip_i, train_metrics,
                   valid_metrics, processed, valid_processed, n_backward, n_clip,
                   opt_steps, set_steps, lr_steps, error>>

\* lines 53, 63, 72
ComputeLoss ==
    /\ tpc = "loss"
    /\ loss_set' = TRUE
    /\ events' = Append(events, Event("loss"))
    /\ tpc' = "backward"
    /\ UNCHANGED <<cellVars, config, batch_idx, clip_i, train_metrics, valid_metrics,
                   processed, valid_processed, n_backward, n_clip, opt_steps, set_steps,
                   lr_steps, error>>

\* a branch that forgets its clipping
AfterBackward_NoClip == "step"

\* where _train_epoch goes after loss.backward()
AfterBackward == "clip"

\* lines 54, 64, 73
Backward ==
    /\ tpc = "backward"
    /\ n_backward' = n_backward + 1
    /\ events' = Append(events, Event("backward"))
    /\ tpc' = AfterBackward
    /\ UNCHANGED <<cellVars, config, batch_idx, loss_set, clip_i, train_metrics,
                   valid_metrics, processed, valid_processed, n_clip, opt_steps,
                   set_steps, lr_steps, error>>

\* lines 56-58, 66-68, 75: the next clip_grad_norm_ call of the branch
Clip ==
    /\ tpc = "clip"
    /\ IF clip_i < Len(ClipGroups(model_name))
       THEN /\ events' = Append(events, ClipEvent(ClipGroups(model_name)[clip_i + 1]))
            /\ clip_i' = clip_i + 1
            /\ n_clip' = n_clip + 1
            /\ tpc' = "clip"
       ELSE /\ tpc' = "step"
            /\ UNCHANGED <<events, clip_i, n_clip>>
    /\ UNCHANGED <<cellVars, config, batch_idx, loss_set, train_metrics, valid_metrics,
                   processed, valid_processed, n_backward, opt_steps, set_steps,
                   lr_steps, error>>

\* line 80
OptimizerStep ==
    /\ tpc = "step"
    /\ opt_steps' = opt_steps + 1
    /\ events' = Append(events, Event("step"))
    /\ tpc' = "set_step"
    /\ UNCHANGED <<cellVars, config, batch_idx, loss_set, clip_i, train_metrics,
                   valid_metrics, processed, valid_processed, n_backward, n_clip,
                   set_steps, lr_steps, error>>

\* line 82
SetStep ==
    /\ tpc = "set_step"
    /\ set_steps' = set_steps + 1
    /\ tpc' = "update"
    /\ UNCHANGED <<cellVars, config, batch_idx, loss_set, events, clip_i, train_metrics,
                   valid_metrics, processed, valid_processed, n_backward, n_clip,
                   opt_steps, lr_steps, error>>

\* lines 83-89: loss.item() is read; an unbound loss raises UnboundLocalError
UpdateLoss ==
    /\ tpc = "update"
    /\ IF loss_set
       THEN /\ train_metrics' = Update(train_metrics, "loss")
            /\ tpc' = "break_check"
            /\ error' = error
       ELSE /\ tpc' = "crashed"
            /\ error' = "UnboundLocalError"
            /\ UNCHANGED train_metrics
    /\ UNCHANGED <<cellVars, config, batch_idx, loss_set, events, clip_i, valid_metrics,
                   processed, valid_processed, n_backward, n_clip, opt_steps, set_steps,
                   lr_steps>>

\* lines 91-92
BreakCheck ==
    /\ tpc = "break_check"
    /\ tpc' = IF batch_idx = len_epoch THEN "result" ELSE "train_fetch"
    /\ UNCHANGED <<cellVars, config, batch_idx, loss_set, events, clip_i, train_metrics,
                   valid_metrics, processed, valid_processed, n_backward, n_clip,
                   opt_steps, set_steps, lr_steps, error>>

\* lines 93-96 and 110-111: the log is taken; _valid_epoch is entered when there
\* is a validation loader (its loss is a fresh local)
TrainResult ==
    /\ tpc = "result"
    /\ IF n_valid >= 0
       THEN /\ valid_metrics' = [n \in DOMAIN valid_metrics |-> 0]
            /\ loss_set' = FALSE
            /\ tpc' = "valid_fetch"
       ELSE /\ tpc' = "lr"
            /\ UNCHANGED <<valid_metrics, loss_set>>
    /\ UNCHANGED <<cellVars, config, batch_idx, events, clip_i, train_metrics, processed,
                   valid_processed, n_backward, n_clip, opt_steps, set_steps, lr_steps,
                   error>>

\* line 113
ValidFetch ==
    /\ tpc = "valid_fetch"
    /\ IF valid_processed < n_valid
       THEN /\ batch_idx' = valid_processed
            /\ valid_processed' = valid_processed + 1
            /\ tpc' = "valid_dispatch"
       ELSE /\ tpc' = "valid_hist"
            /\ UNCHANGED <<batch_idx, valid_processed>>
    /\ UNCHANGED <<cellVars, config, loss_set, events, clip_i, train_metrics,
                   valid_metrics, processed, n_backward, n_clip, opt_steps, set_steps,
                   lr_steps, error>>

\* a validation branch copied from training with its backward and step
ValidForward_Training ==
    /\ tpc = "valid_dispatch"
    /\ model_name \in Recognised
    /\ loss_set' = TRUE
    /\ n_backward' = n_backward + 1
    /\ opt_steps' = opt_steps + 1
    /\ tpc' = "valid_set_step"
    /\ UNCHANGED <<cellVars, config, batch_idx, events, clip_i, train_metrics,
                   valid_metrics, processed, valid_processed, n_clip,
                   set_steps, lr_steps, error>>

\* lines 120-132: forward pass and loss of a recognised model, under no_grad
ValidForward ==
    /\ tpc = "valid_dispatch"
    /\ model_name \in Recognised
    /\ loss_set' = TRUE
    /\ tpc' = "valid_set_step"
    /\ UNCHANGED <<cellVars, config, batch_idx, events, clip_i, train_metrics,
                   valid_metrics, processed, valid_processed, n_backward, n_clip,
                   opt_steps, set_steps, lr_steps, error>>

\* lines 134-135: the else branch builds a NotImplementedError and drops it
ValidElse ==
    /\ tpc = "valid_dispatch"
    /\ model_name \notin Recognised
    /\ tpc' = "valid_set_step"
    /\ UNCHANGED <<cellVars, config, batch_idx, loss_set, events, clip_i, train_metrics,
                   valid_metrics, processed, valid_processed, n_backward, n_clip,
                   opt_steps, set_steps, lr_steps, error>>

\* line 137
ValidSetStep ==
    /\ tpc = "valid_set_step"
    /\ set_steps' = set_steps + 1
    /\ tpc' = "valid_update"
    /\ UNCHANGED <<cellVars, config, batch_idx, loss_set, events, clip_i, train_metrics,
                   valid_metrics, processed, valid_processed, n_backward, n_clip,
                   opt_steps, lr_steps, error>>

\* line 138
ValidUpdate ==
    /\ tpc = "valid_update"
    /\ IF loss_set
       THEN /\ valid_metrics' = Update(valid_metrics, "loss")
            /\ tpc' = "valid_fetch"
            /\ error' = error
       ELSE /\ tpc' = "crashed"
            /\ error' = "UnboundLocalError"
            /\ UNCHANGED valid_metrics
    /\ UNCHANGED <<cellVars, config, batch_idx, loss_set, events, clip_i, train_metrics,
                   processed, valid_processed, n_backward, n_clip, opt_steps, set_steps,
                   lr_steps>>

\* lines 140-143 and 97: the histograms are written and the log is returned
ValidReturn ==
    /\ tpc = "valid_hist"
    /\ tpc' = "lr"
    /\ UNCHANGED <<cellVars, config, batch_idx, loss_set, events, clip_i, train_metrics,
                   valid_metrics, processed, valid_processed, n_backward, n_clip,
                   opt_steps, set_steps, lr_steps, error>>

\* lines 99-101
TrainReturn ==
    /\ tpc = "lr"
    /\ lr_steps' = IF has_lr THEN lr_steps + 1 ELSE lr_steps
    /\ tpc' = "returned"
    /\ UNCHANGED <<cellVars, config, batch_idx, loss_set, events, clip_i, train_metrics,
                   valid_metrics, processed, valid_processed, n_backward, n_clip,
                   opt_steps, set_steps, error>>

TrainerNext ==
    \/ TrainEpochEnter
    \/ TrainFetch
    \/ ZeroGrad
    \/ Forward
    \/ TrainElse
    \/ ComputeLoss
    \/ Backward
    \/ Clip
    \/ OptimizerStep
    \/ SetStep
    \/ UpdateLoss
    \/ BreakCheck
    \/ TrainResult
    \/ ValidFetch
    \/ ValidForward
    \/ ValidElse
    \/ ValidSetStep
    \/ ValidUpdate
    \/ ValidReturn
    \/ TrainReturn

TrainerInit == CellIdle /\ TrainerConfig

SpecTrainer == TrainerInit /\ [][TrainerNext]_vars

-----------------------------------------------------------------------------
(* Claims about the layer. *)

Kappa == window_params_t[3]

IsZero(x) == \A b \in 1..Len(x) : \A i \in 1..Len(x[b]) : x[b][i] = 0

LoopStep == cpc = "loop" /\ cpc' = "loop" /\ t' = t + 1

\* C1: during one forward, kappa is zero before the first step and every step
\* adds a non-negative increment to every component of every batch item, so
\* kappa never decreases and is never negative.
C1_KappaMonotone ==
    /\ [](cpc = "loop" /\ t = 0 => IsZero(Kappa))
    /\ [][LoopStep =>
            \A b \in 1..Len(Kappa) : \A k \in 1..num_gaussian_window :
                /\ Kappa[b][k] >= 0
                /\ Kappa'[b][k] >= Kappa[b][k]]_vars

C1_Witness ==
    /\ cpc = "loop"
    /\ t >= 2
    /\ \E b \in 1..Len(Kappa) : \E k \in 1..num_gaussian_window : Kappa[b][k] >= 2
    /\ \E b \in 1..Len(Kappa) : \E k \in 1..num_gaussian_window : Kappa[b][k] = 0

CharLen == Len(sentences[1])

Truncate(x, n) == [b \in 1..Len(x) |-> SubSeq(x[b], 1, n)]

LastZero(m) ==
    \A b \in 1..Len(sentences_mask) : \A j \in (CharLen - m + 1)..CharLen :
        sentences_mask[b][j] = 0

\* C2: compute_window ignores masked-out positions: when the last m positions
\* of the mask are zero the window equals the window of the sequence and mask
\* truncated to their first L - m positions, and changing the character at a
\* masked position leaves the window unchanged.
C2_MaskedIgnored ==
    cpc = "returned" =>
        /\ \A m \in 0..CharLen : LastZero(m) =>
              window_t = compute_window(Truncate(sentences, CharLen - m),
                                        Truncate(sentences_mask, CharLen - m),
                                        window_params_t)
        /\ \A b \in 1..Len(sentences) : \A j \in 1..CharLen : \A c \in 0..(num_chars - 1) :
              sentences_mask[b][j] = 0 =>
                  window_t = compute_window([sentences EXCEPT ![b][j] = c],
                                            sentences_mask, window_params_t)

C2_Witness ==
    /\ cpc = "returned"
    /\ CharLen = 2
    /\ sentences_mask = <<<<1, 0>>>>
    /\ sentences = <<<<0, 1>>>>
    /\ window_params_t[3][1][1] = 1
    /\ window_params_t[3][1][2] = 0
    /\ window_params_t[2][1][2] = 1
    /\ window_t = <<<<window_params_t[1][1][2], 0>>>>

\* C3: for every stroke sequence length T the call returns a hidden sequence
\* and a window sequence with exactly T entries per batch item, entry s being
\* what step s appended.
C3_AlignedOutputs ==
    cpc \in {"returned", "raised"} =>
        /\ cpc = "returned"
        /\ Len(ret.hidden) = Len(strokes)
        /\ Len(ret.window) = Len(strokes)
        /\ \A b \in 1..Len(strokes) :
              /\ Len(ret.hidden[b]) = SeqLen(strokes)
              /\ Len(ret.window[b]) = SeqLen(strokes)
              /\ \A s \in 1..SeqLen(strokes) :
                    /\ ret.hidden[b][s] = hidden_seq[s][b]
                    /\ ret.window[b][s] = window_seq[s][b]

\* C3, for the lengths the call returns for: a stroke sequence of length
\* T >= 1 returns T entries per batch item, entry s being what step s appended.
C3_AlignedWhenNonEmpty ==
    cpc \in {"returned", "raised"} /\ SeqLen(strokes) >= 1 => C3_AlignedOutputs

C3_RaisesWhenEmpty ==
    cpc \in {"returned", "raised"} /\ SeqLen(strokes) = 0 => cpc = "raised"

\* C4: every call starts from zero hidden, cell, window and kappa, and a call
\* returns what an earlier call with the same arguments returned, whatever
\* calls ran in between.
C4_NoStateBetweenCalls ==
    /\ cpc = "loop" /\ t = 0 =>
          /\ IsZero(hidden_t.h)
          /\ IsZero(hidden_t.c)
          /\ IsZero(window_t)
          /\ IsZero(Kappa)
    /\ cpc = "returned" /\ SameArgs(ref, ThisCall) => ret = ref.ret

C4_Witness ==
    /\ cpc = "returned"
    /\ SameArgs(ref, ThisCall)
    /\ between
    /\ SeqLen(strokes) >= 2
    /\ ~IsZero(ret.window[1])
    /\ ~IsZero(ret.hidden[1])

\* C9: the first step starts from the zero window and the zero hidden and cell
\* state; every step feeds the cell the stroke of its index concatenated with
\* the previous window, together with the previous hidden and cell state,
\* derives its parameters from the new hidden vector and the previous kappa,
\* and computes its window from those new parameters.
C9_ThreadedInOrder ==
    /\ [](cpc = "loop" /\ t = 0 =>
            IsZero(window_t) /\ IsZero(hidden_t.h) /\ IsZero(hidden_t.c))
    /\ [][LoopStep =>
            /\ \A b \in 1..Len(strokes) :
                  /\ SubSeq(input_t'[b], 1, input_dim) = strokes[b][t + 1]
                  /\ SubSeq(input_t'[b], input_dim + 1, input_dim + num_chars) = window_t[b]
            /\ hidden_t' = lstm_cell(theta.lstm, input_t', hidden_t)
            /\ window_params_t' =
                  compute_window_parameters(theta.window, hidden_t', window_params_t)
            /\ window_t' = compute_window(sentences, sentences_mask, window_params_t')]_vars

C9_Witness ==
    /\ cpc = "loop"
    /\ t = 2
    /\ ~IsZero(window_seq[1])
    /\ window_seq[2] # window_seq[1]
    /\ window_t # compute_window(sentences, sentences_mask,
                                 init_hidden_and_window(Len(strokes)).window_params)

-----------------------------------------------------------------------------
(* Claims about the trainer. *)

Idx(o) == {i \in 1..Len(events) : events[i].op = o}

Range(f) == {f[i] : i \in 1..Len(f)}

Before(a, b) == \A i \in Idx(b) : \E j \in Idx(a) : j < i

\* C5: for a recognised model the events of a training batch are, in order,
\* zero_grad, forward, loss, backward, one clip to max-norm 10 of every clip
\* group of the model type, and then exactly one optimizer step.
C5_TrainOrder ==
    model_name \in Recognised =>
        /\ \A o \in {"zero_grad", "forward", "loss", "backward", "step"} :
              Cardinality(Idx(o)) <= 1
        /\ Before("zero_grad", "forward")
        /\ Before("forward", "loss")
        /\ Before("loss", "backward")
        /\ Before("backward", "clip")
        /\ \A i \in Idx("clip") : events[i].max_norm = 10
        /\ \A i \in Idx("clip") : \A j \in Idx("clip") :
              events[i].group = events[j].group => i = j
        /\ \A i \in Idx("step") :
              /\ \A j \in Idx("clip") : j < i
              /\ \E j \in Idx("backward") : j < i
              /\ {events[j].group : j \in Idx("clip")} = Range(ClipGroups(model_name))
        /\ tpc \in {"set_step", "update", "break_check"} => Cardinality(Idx("step")) = 1
        /\ opt_steps = IF tpc \in {"zero_grad", "dispatch", "loss", "backward", "clip", "step"}
                       THEN processed - 1 ELSE processed

C5_Witness ==
    /\ model_name = "Conditional"
    /\ tpc = "set_step"
    /\ processed = 2
    /\ Len(events) = 8

\* C6: with an unrecognised model name no optimizer step and no writer step
\* update is performed, and no metric is updated; the epoch ends with an
\* explicit unsupported-configuration error.
C6_FailFast ==
    model_name \notin Recognised =>
        /\ opt_steps = 0
        /\ set_steps = 0
        /\ \A n \in DOMAIN train_metrics : train_metrics[n] = 0
        /\ \A n \in DOMAIN valid_metrics : valid_metrics[n] = 0
        /\ tpc = "crashed" => error = "NotImplementedError"

\* C7: when the epoch returns, every tracked name ('loss' and each metric
\* function name) has received one update per processed batch, in training and
\* in validation.
C7_EveryMetricPerBatch ==
    tpc = "returned" =>
        /\ \A n \in DOMAIN train_metrics : train_metrics[n] = processed
        /\ n_valid >= 0 => \A n \in DOMAIN valid_metrics : valid_metrics[n] = valid_processed

ValidPcs == {"valid_fetch", "valid_dispatch", "valid_set_step", "valid_update", "valid_hist"}

\* C8: validation does no back-propagation, no clipping, no optimizer step and
\* no scheduler step; it starts only when every training batch has been
\* processed and no training batch follows it; the scheduler, when configured,
\* steps once per returned _train_epoch, after validation.
C8_ValidationReadOnly ==
    /\ [](tpc \in ValidPcs =>
            /\ lr_steps = 0
            /\ opt_steps = processed
            /\ ~iteration_based => processed = n_batches)
    /\ [](tpc = "returned" => lr_steps = IF has_lr THEN 1 ELSE 0)
    /\ [][(tpc \in ValidPcs) =>
            (UNCHANGED <<n_backward, n_clip, opt_steps, lr_steps, processed, train_metrics>>)]_vars

C8_Witness ==
    /\ tpc = "returned"
    /\ has_lr
    /\ n_valid = 2
    /\ valid_processed = 2
    /\ processed = 2
    /\ opt_steps = 2

\* C10: for a recognised model the training loop ends after exactly len_epoch
\* batches, with len_epoch optimizer steps and len_epoch loss updates, in
\* epoch-based and in iteration-based training.
C10_ExactlyLenEpoch ==
    model_name \in Recognised /\ tpc \in ValidPcs \cup {"result", "lr", "returned"} =>
        /\ processed = len_epoch
        /\ opt_steps = len_epoch
        /\ train_metrics["loss"] = len_epoch

====
